---- MODULE Spec2Model ----
(***************************************************************************)
(* ddb: a command-line client for the Darango HTTP API.                    *)
(*                                                                         *)
(* src/ddb/config.py   environment defaults                                *)
(* src/ddb/client.py   DarangoError, DarangoClient (_request + endpoints)  *)
(* src/ddb/cli.py      the six commands                                    *)
(*                                                                         *)
(* One process runs one command.  A command is one action: it resolves the *)
(* database, parses its JSON-bearing argument, calls one client operation, *)
(* which issues one HTTP request, and prints the result or the error.      *)
(*                                                                         *)
(* Python values are records [t, s, kv]: t the Python type, s the text of  *)
(* a str or an int, kv the items of a dict or a list.  Optional[T] is a    *)
(* sequence of length at most one.  Text that the code parses (the --bind  *)
(* and --doc arguments, an HTTP response body) is a sequence of characters.*)
(***************************************************************************)
EXTENDS Integers, Sequences, FiniteSets, TLC

\* ------------------------------------------------------------------ bounds

\* Longest generated argument text (every text over Alphabet up to this
\* length is an input, next to the named texts below).
MaxTextLen == 2

\* Most operations called on one client object.
MaxCalls == 2

\* ----------------------------------------------------------- Python values

None == <<>>
Some(x) == <<x>>

PyNone == [t |-> "NoneType", s |-> "", kv |-> <<>>]
PyStr(x) == [t |-> "str", s |-> x, kv |-> <<>>]
PyInt(x) == [t |-> "int", s |-> x, kv |-> <<>>]
PyDict(items) == [t |-> "dict", s |-> "", kv |-> items]
PyList(items) == [t |-> "list", s |-> "", kv |-> items]

\* bool(v): None, 0, "", {} and [] are falsy.
Truthy(v) ==
  CASE v.t = "NoneType" -> FALSE
    [] v.t = "int" -> v.s # "0"
    [] v.t = "str" -> v.s # ""
    [] OTHER -> Len(v.kv) > 0

\* key in d, d[key] and d[key] = value for a dict d (insertion-ordered).
HasKey(d, key) == \E i \in 1..Len(d.kv) : d.kv[i][1] = key
GetItem(d, key) == d.kv[CHOOSE i \in 1..Len(d.kv) : d.kv[i][1] = key][2]
SetItem(d, key, value) ==
  IF HasKey(d, key)
  THEN PyDict([i \in 1..Len(d.kv) |->
                 IF d.kv[i][1] = key THEN <<key, value>> ELSE d.kv[i]])
  ELSE PyDict(Append(d.kv, <<key, value>>))

DigitStr == <<"0", "1", "2", "3", "4", "5", "6", "7", "8", "9">>

RECURSIVE IntStr(_)
\* str(n) for an int n >= 0.
IntStr(n) ==
  IF n < 10 THEN DigitStr[n + 1]
  ELSE IntStr(n \div 10) \o DigitStr[(n % 10) + 1]

\* ------------------------------------------------------------- json.loads
\* The decoder on the JSON that the inputs below are written in: objects,
\* arrays, strings without escapes, non-negative integers and null, with no
\* white space.  Values, messages and positions are those of json.loads.

Digits == {"0", "1", "2", "3", "4", "5", "6", "7", "8", "9"}

\* A JSONDecodeError(msg, doc, pos).
Fail(msg, pos) == [ok |-> FALSE, value |-> PyNone, end |-> pos, msg |-> msg]
Ok(value, end) == [ok |-> TRUE, value |-> value, end |-> end, msg |-> ""]

\* s[i:i+1], "" past the end.
At(s, i) == IF i >= 1 /\ i <= Len(s) THEN s[i] ELSE ""

RECURSIVE ScanString(_, _, _, _)
\* A string whose opening quote is at begin; i is the next character to read.
ScanString(s, begin, i, acc) ==
  IF i > Len(s) THEN Fail("Unterminated string starting at", begin - 1)
  ELSE IF s[i] = "\"" THEN Ok(PyStr(acc), i + 1)
  ELSE ScanString(s, begin, i + 1, acc \o s[i])

RECURSIVE ScanDigits(_, _, _)
ScanDigits(s, i, acc) ==
  IF At(s, i) \in Digits THEN ScanDigits(s, i + 1, acc \o s[i])
  ELSE Ok(PyInt(acc), i)

\* An integer literal: 0, or a non-zero digit followed by digits.
ScanNumber(s, i) ==
  IF s[i] = "0" THEN Ok(PyInt("0"), i + 1) ELSE ScanDigits(s, i, "")

RECURSIVE ParseValue(_, _)
RECURSIVE ParseMembers(_, _, _)
RECURSIVE ParseElements(_, _, _)

\* The members of an object after "{" or ","; i is at the key's quote.
ParseMembers(s, i, acc) ==
  IF At(s, i) # "\""
  THEN Fail("Expecting property name enclosed in double quotes", i - 1)
  ELSE LET key == ScanString(s, i, i + 1, "") IN
    IF ~key.ok THEN key
    ELSE IF At(s, key.end) # ":"
    THEN Fail("Expecting ':' delimiter", key.end - 1)
    ELSE LET val == ParseValue(s, key.end + 1) IN
      IF ~val.ok THEN val
      ELSE LET d == SetItem(acc, key.value.s, val.value) IN
        CASE At(s, val.end) = "}" -> Ok(d, val.end + 1)
          [] At(s, val.end) = "," -> ParseMembers(s, val.end + 1, d)
          [] OTHER -> Fail("Expecting ',' delimiter", val.end - 1)

\* The elements of an array after "[" or ",".
ParseElements(s, i, acc) ==
  LET val == ParseValue(s, i) IN
    IF ~val.ok THEN val
    ELSE LET l == PyList(Append(acc.kv, <<"", val.value>>)) IN
      CASE At(s, val.end) = "]" -> Ok(l, val.end + 1)
        [] At(s, val.end) = "," -> ParseElements(s, val.end + 1, l)
        [] OTHER -> Fail("Expecting ',' delimiter", val.end - 1)

\* scan_once: one JSON value starting at s[i].
ParseValue(s, i) ==
  CASE At(s, i) = "\"" -> ScanString(s, i, i + 1, "")
    [] At(s, i) = "{" ->
         IF At(s, i + 1) = "}" THEN Ok(PyDict(<<>>), i + 2)
         ELSE ParseMembers(s, i + 1, PyDict(<<>>))
    [] At(s, i) = "[" ->
         IF At(s, i + 1) = "]" THEN Ok(PyList(<<>>), i + 2)
         ELSE ParseElements(s, i + 1, PyList(<<>>))
    [] /\ At(s, i) = "n" /\ At(s, i + 1) = "u"
       /\ At(s, i + 2) = "l" /\ At(s, i + 3) = "l" -> Ok(PyNone, i + 4)
    [] At(s, i) \in Digits -> ScanNumber(s, i)
    [] OTHER -> Fail("Expecting value", i - 1)

\* json.loads(s): one value and nothing after it.
json_loads(s) ==
  LET r == ParseValue(s, 1) IN
    IF ~r.ok THEN r
    ELSE IF r.end # Len(s) + 1 THEN Fail("Extra data", r.end - 1)
    ELSE r

\* str(e) of the JSONDecodeError of a one-line document.
JSONDecodeErrorStr(e) ==
  e.msg \o ": line 1 column " \o IntStr(e.end + 1)
        \o " (char " \o IntStr(e.end) \o ")"

\* json.dumps(v) with the default separators.
RECURSIVE json_dumps(_)
RECURSIVE DumpItems(_, _)
DumpItems(v, i) ==
  IF i > Len(v.kv) THEN ""
  ELSE (IF i > 1 THEN ", " ELSE "")
       \o (IF v.t = "dict" THEN "\"" \o v.kv[i][1] \o "\": " ELSE "")
       \o json_dumps(v.kv[i][2]) \o DumpItems(v, i + 1)

json_dumps(v) ==
  CASE v.t = "NoneType" -> "null"
    [] v.t = "int" -> v.s
    [] v.t = "str" -> "\"" \o v.s \o "\""
    [] v.t = "dict" -> "{" \o DumpItems(v, 1) \o "}"
    [] v.t = "list" -> "[" \o DumpItems(v, 1) \o "]"

\* repr(v) and str(v), as an f-string formats a value.
RECURSIVE py_repr(_)
RECURSIVE ReprItems(_, _)
ReprItems(v, i) ==
  IF i > Len(v.kv) THEN ""
  ELSE (IF i > 1 THEN ", " ELSE "")
       \o (IF v.t = "dict" THEN "'" \o v.kv[i][1] \o "': " ELSE "")
       \o py_repr(v.kv[i][2]) \o ReprItems(v, i + 1)

py_repr(v) ==
  CASE v.t = "NoneType" -> "None"
    [] v.t = "int" -> v.s
    [] v.t = "str" -> "'" \o v.s \o "'"
    [] v.t = "dict" -> "{" \o ReprItems(v, 1) \o "}"
    [] v.t = "list" -> "[" \o ReprItems(v, 1) \o "]"

py_str(v) == IF v.t = "str" THEN v.s ELSE py_repr(v)

\* ------------------------------------------------------------------ inputs

Alphabet == {"{", "}", "[", "]", "\"", "a", "0", "1"}
GeneratedTexts == UNION {[1..n -> Alphabet] : n \in 0..MaxTextLen}

\* "w" as JSON text, for a word w given by its characters.
Quoted(w) == <<"\"">> \o w \o <<"\"">>
W_errorMessage ==
  <<"e", "r", "r", "o", "r", "M", "e", "s", "s", "a", "g", "e">>
W_error == <<"e", "r", "r", "o", "r">>
W_key == <<"_", "k", "e", "y">>

TextObject == <<"{">> \o Quoted(<<"a">>) \o <<":", "1", "}">>
TextTruncated == <<"{">> \o Quoted(<<"a">>) \o <<":">>
TextNull == <<"n", "u", "l", "l">>

\* What a --bind or --doc argument can be.
ArgTexts == GeneratedTexts \cup {TextObject, TextTruncated, TextNull}

BodyResult == <<"{">> \o Quoted(W_key) \o <<":">> \o Quoted(<<"k">>) \o <<"}">>
BodyErrorMessage ==
  <<"{">> \o Quoted(W_errorMessage) \o <<":">> \o Quoted(<<"m">>) \o <<"}">>
BodyError == <<"{">> \o Quoted(W_error) \o <<":">> \o Quoted(<<"e">>) \o <<"}">>
BodyBoth ==
  <<"{">> \o Quoted(W_error) \o <<":">> \o Quoted(<<"e">>) \o <<",">>
          \o Quoted(W_errorMessage) \o <<":">> \o Quoted(<<"m">>) \o <<"}">>
BodyList == <<"[">> \o Quoted(W_errorMessage) \o <<"]">>
BodyString == Quoted(W_error)
BodyHtml == <<"<", "h", "1", ">">>

\* What an HTTP response body can be.
BodyTexts ==
  { <<>>, <<"{", "}">>, <<"1">>, TextNull, BodyHtml, BodyResult,
    BodyErrorMessage, BodyError, BodyBoth, BodyList, BodyString }

StatusCodes == {200, 301, 404, 500}

\* What httpx.request can do: raise a RequestError (a transport failure) or
\* return a response.
Outcomes ==
  {[kind |-> "RequestError", detail |-> d] :
     d \in {"[Errno 111] Connection refused", "timed out"}}
  \cup
  {[kind |-> "Response", status_code |-> c, text |-> b] :
     c \in StatusCodes, b \in BodyTexts}

DbOptions == {None, Some(""), Some("mydb")}
TypeOptions == {None, Some("document"), Some("edge"), Some("Edge")}
Names == {"users", "knows"}
Keys == {"k1", "k2"}
Queries == {"RETURN 1"}

\* The process environment: each variable unset or set.
Environs ==
  [DARANGO_API : {None, Some(<<"http://db:8529">>),
                        Some(<<"http://db:8529", "/">>)},
   ARANGO_DB : {None, Some("envdb")}]

VARIABLES
  pc,            \* "start": a process about to run its command; "exited"
  environ,       \* os.environ of the process
  argv,          \* the command line the process ran
  client,        \* Optional: the DarangoClient that get_client() made
  client_calls,  \* the client operations the command called, in order
  http,          \* the httpx.request calls made, in order
  response,      \* Optional: what the httpx.request call did
  result,        \* Optional: what the client operation returned or raised
  stdout,        \* what was printed, in order
  exit_code,     \* Optional: the process's exit status
  uncaught       \* Optional: the exception that left the command uncaught

vars ==
  <<pc, environ, argv, client, client_calls, http, response, result,
    stdout, exit_code, uncaught>>

\* --------------------------------------------------------------- config.py

\* os.environ.get("DARANGO_API", "http://localhost:8080")
get_darango_api(env) ==
  IF env.DARANGO_API # None THEN env.DARANGO_API[1]
  ELSE <<"http://localhost:8080">>

\* os.environ.get("ARANGO_DB", "_system")
get_default_db(env) ==
  IF env.ARANGO_DB # None THEN env.ARANGO_DB[1] ELSE "_system"

\* --------------------------------------------------------------- client.py

\* DarangoError(message, status_code=None)
DarangoError(message, status_code) ==
  [type |-> "DarangoError", message |-> message, status_code |-> status_code]

RECURSIVE rstrip(_, _)
\* s.rstrip(ch) for a text s given by its pieces: a piece is "/" or a run of
\* characters that does not end in "/".
rstrip(s, ch) ==
  IF s # <<>> /\ s[Len(s)] = ch THEN rstrip(SubSeq(s, 1, Len(s) - 1), ch)
  ELSE s

RECURSIVE Join(_)
Join(s) == IF s = <<>> THEN "" ELSE Head(s) \o Join(Tail(s))

DefaultTimeout == 30

\* DarangoClient.__init__(self, base_url, timeout)
DarangoClient_init(base_url, timeout, env) ==
  [base_url |->
     Join(rstrip(IF base_url # None /\ base_url[1] # <<>>
                 THEN base_url[1] ELSE get_darango_api(env), "/")),
   timeout |-> timeout]

\* DarangoClient(base_url=None, timeout=30.0)
DarangoClient(base_url, env) ==
  DarangoClient_init(base_url, DefaultTimeout, env)

\* response.is_success: raise_for_status() raises HTTPStatusError of every
\* response that is not a 2xx.
is_success(status_code) == status_code >= 200 /\ status_code <= 299

\* str(e) of the HTTPStatusError that response.raise_for_status() raises
\* (its first line; httpx names the status class, the status and the URL).
HTTPStatusErrorStr(status_code, url) ==
  (CASE status_code \div 100 = 1 -> "Informational response"
     [] status_code \div 100 = 3 -> "Redirect response"
     [] status_code \div 100 = 4 -> "Client error"
     [] OTHER -> "Server error")
  \o " '" \o IntStr(status_code) \o "' for url '" \o url \o "'"

\* ErrorMessage with the two fields tested in the other order.
ErrorMessage_errorFirst(status_code, text, url) ==
  LET error_msg == PyStr(HTTPStatusErrorStr(status_code, url))
      error_data == json_loads(text)
  IN IF ~error_data.ok THEN error_msg
     ELSE IF error_data.value.t # "dict" THEN error_msg
     ELSE IF HasKey(error_data.value, "error")
     THEN GetItem(error_data.value, "error")
     ELSE IF HasKey(error_data.value, "errorMessage")
     THEN GetItem(error_data.value, "errorMessage")
     ELSE error_msg

\* Lines 62-70: the message of an error response.  Of a body that is JSON
\* but no dict, `in` or the subscript raises TypeError, or both tests are
\* False; `except Exception: pass` leaves error_msg as it was.
ErrorMessage(status_code, text, url) ==
  LET error_msg == PyStr(HTTPStatusErrorStr(status_code, url))
      error_data == json_loads(text)
  IN IF ~error_data.ok THEN error_msg
     ELSE IF error_data.value.t # "dict" THEN error_msg
     ELSE IF HasKey(error_data.value, "errorMessage")
     THEN GetItem(error_data.value, "errorMessage")
     ELSE IF HasKey(error_data.value, "error")
     THEN GetItem(error_data.value, "error")
     ELSE error_msg

Return(value) == [kind |-> "return", value |-> value]
Raise(exc) == [kind |-> "raise", exc |-> exc]

\* Lines 55-73: what _request returns or raises, given what httpx.request
\* did.  response.json() raises json's JSONDecodeError, which neither
\* except clause names.
Classify(outcome, url) ==
  IF outcome.kind = "RequestError"
  THEN Raise(DarangoError(PyStr("Request failed: " \o outcome.detail), None))
  ELSE IF ~is_success(outcome.status_code)
  THEN Raise(DarangoError(ErrorMessage(outcome.status_code, outcome.text, url),
                          Some(outcome.status_code)))
  ELSE LET data == json_loads(outcome.text) IN
    IF data.ok THEN Return(data.value)
    ELSE Raise([type |-> "JSONDecodeError",
                message |-> PyStr(JSONDecodeErrorStr(data))])

\* The arguments of the one httpx.request call.
HttpRequest(self, method, path, json, params) ==
  [method |-> method, url |-> self.base_url \o path, path |-> path,
   json |-> json, params |-> params, timeout |-> self.timeout]

\* Request with a second attempt after a transport failure.
Request_Retry(self, method, path, json, params, outcome) ==
  [sent |-> IF outcome.kind = "RequestError"
            THEN <<HttpRequest(self, method, path, json, params),
                   HttpRequest(self, method, path, json, params)>>
            ELSE <<HttpRequest(self, method, path, json, params)>>,
   outcome |-> outcome,
   result |-> Classify(outcome, self.base_url \o path),
   self |-> self]

\* Request with the timeout doubled after a transport failure, for the
\* client's next call.
Request_Backoff(self, method, path, json, params, outcome) ==
  [sent |-> <<HttpRequest(self, method, path, json, params)>>,
   outcome |-> outcome,
   result |-> Classify(outcome, self.base_url \o path),
   self |-> IF outcome.kind = "RequestError"
            THEN [self EXCEPT !.timeout = 2 * self.timeout] ELSE self]

\* DarangoClient._request: the request it sends, its result, and the client
\* after it (no line of _request assigns to self).
Request(self, method, path, json, params, outcome) ==
  [sent |-> <<HttpRequest(self, method, path, json, params)>>,
   outcome |-> outcome,
   result |-> Classify(outcome, self.base_url \o path),
   self |-> self]

\* type_code with every type but "document" taken for an edge collection.
type_code_NotDocument(collection_type) ==
  IF collection_type # "document" THEN 3 ELSE 2

\* Line 89: the ArangoDB type code (2 = document, 3 = edge).
type_code(collection_type) == IF collection_type = "edge" THEN 3 ELSE 2

create_collection(self, db, name, collection_type, outcome) ==
  Request(self, "POST", "/_db/" \o db \o "/_api/collection",
          PyDict(<< <<"name", PyStr(name)>>,
                    <<"type", PyInt(IntStr(type_code(collection_type)))>> >>),
          PyNone, outcome)

\* QueryBody with bindVars set whatever bind_vars is.
QueryBody_AlwaysBindVars(aql, bind_vars) ==
  SetItem(PyDict(<< <<"query", PyStr(aql)>> >>), "bindVars",
          IF bind_vars.t = "NoneType" THEN PyDict(<<>>) ELSE bind_vars)

\* Lines 112-114: the body of the cursor request.
QueryBody(aql, bind_vars) ==
  LET body == PyDict(<< <<"query", PyStr(aql)>> >>) IN
    IF Truthy(bind_vars) THEN SetItem(body, "bindVars", bind_vars) ELSE body

client_query(self, db, aql, bind_vars, outcome) ==
  Request(self, "POST", "/_db/" \o db \o "/_api/cursor",
          QueryBody(aql, bind_vars), PyNone, outcome)

get_document(self, db, collection, key, outcome) ==
  Request(self, "GET",
          "/_db/" \o db \o "/_api/document/" \o collection \o "/" \o key,
          PyNone, PyNone, outcome)

insert_document(self, db, collection, document, outcome) ==
  Request(self, "POST", "/_db/" \o db \o "/_api/document/" \o collection,
          document, PyNone, outcome)

\* update_document with PUT (replace) for PATCH.
update_document_Put(self, db, collection, key, document, outcome) ==
  Request(self, "PUT",
          "/_db/" \o db \o "/_api/document/" \o collection \o "/" \o key,
          document, PyNone, outcome)

update_document(self, db, collection, key, document, outcome) ==
  Request(self, "PATCH",
          "/_db/" \o db \o "/_api/document/" \o collection \o "/" \o key,
          document, PyNone, outcome)

delete_document(self, db, collection, key, outcome) ==
  Request(self, "DELETE",
          "/_db/" \o db \o "/_api/document/" \o collection \o "/" \o key,
          PyNone, PyNone, outcome)

\* ------------------------------------------------------------------ cli.py

\* get_client(): DarangoClient()
get_client(env) == DarangoClient(None, env)

\* print_json(data): the JSON text of data, rendered by Rich.
print_json(data) == [kind |-> "json", text |-> json_dumps(data)]

\* print_error without the "Error:" prefix.
print_error_NoPrefix(message) == [kind |-> "error", text |-> py_str(message)]

\* print_error(message): rprint(f"[red]Error:[/red] {message}")
print_error(message) == [kind |-> "error", text |-> "Error: " \o py_str(message)]

\* db = db or get_default_db()
ResolveDb(db, env) ==
  IF db # None /\ db[1] # "" THEN db[1] ELSE get_default_db(env)

\* The try/except around the client call, shared by the six commands:
\* print the result, or print a DarangoError's message and exit 1.  Any
\* other exception leaves the command; the interpreter then exits 1.
Render(av, self, calls, r) ==
  /\ pc' = "exited"
  /\ argv' = av
  /\ client' = Some(self)
  /\ client_calls' = calls
  /\ http' = r.sent
  /\ response' = Some(r.outcome)
  /\ result' = Some(r.result)
  /\ IF r.result.kind = "return"
     THEN /\ stdout' = <<print_json(r.result.value)>>
          /\ exit_code' = Some(0)
          /\ uncaught' = None
     ELSE IF r.result.exc.type = "DarangoError"
     THEN /\ stdout' = <<print_error(r.result.exc.message)>>
          /\ exit_code' = Some(1)
          /\ uncaught' = None
     ELSE /\ stdout' = <<>>
          /\ exit_code' = Some(1)
          /\ uncaught' = Some(r.result.exc)
  /\ UNCHANGED environ

\* The except json.JSONDecodeError branch of query, insert and update.
InvalidJson(av, self, what, e) ==
  /\ pc' = "exited"
  /\ argv' = av
  /\ client' = Some(self)
  /\ client_calls' = <<>>
  /\ http' = <<>>
  /\ response' = None
  /\ result' = None
  /\ stdout' = <<print_error(PyStr("Invalid JSON for " \o what \o ": "
                                   \o JSONDecodeErrorStr(e)))>>
  /\ exit_code' = Some(1)
  /\ uncaught' = None
  /\ UNCHANGED environ

\* ddb create NAME [--db DB] [--type TYPE]
create ==
  /\ pc = "start"
  /\ \E name \in Names, db_opt \in DbOptions, type_opt \in TypeOptions,
        outcome \in Outcomes :
       LET collection_type ==
             IF type_opt = None THEN "document" ELSE type_opt[1]
           db == ResolveDb(db_opt, environ)
           self == get_client(environ)
       IN Render([command |-> "create", name |-> name, db |-> db_opt,
                  type |-> type_opt],
                 self,
                 <<[op |-> "create_collection", db |-> db, name |-> name,
                    collection_type |-> collection_type]>>,
                 create_collection(self, db, name, collection_type, outcome))

\* ddb query AQL [--db DB] [--bind JSON]
query ==
  /\ pc = "start"
  /\ \E aql \in Queries, db_opt \in DbOptions,
        bind \in {None} \cup {Some(t) : t \in ArgTexts} :
       LET db == ResolveDb(db_opt, environ)
           self == get_client(environ)
           av == [command |-> "query", aql |-> aql, db |-> db_opt,
                  bind |-> bind]
           \* `if bind:` is false of None and of the empty string
           parsed == IF bind # None /\ bind[1] # <<>>
                     THEN json_loads(bind[1]) ELSE Ok(PyNone, 0)
       IN IF ~parsed.ok
          THEN InvalidJson(av, self, "bind variables", parsed)
          ELSE \E outcome \in Outcomes :
                 Render(av, self,
                        <<[op |-> "query", db |-> db, aql |-> aql,
                           bind_vars |-> parsed.value]>>,
                        client_query(self, db, aql, parsed.value, outcome))

\* ddb get --col COL --key KEY [--db DB]
get_doc ==
  /\ pc = "start"
  /\ \E col \in Names, key \in Keys, db_opt \in DbOptions,
        outcome \in Outcomes :
       LET db == ResolveDb(db_opt, environ)
           self == get_client(environ)
       IN Render([command |-> "get", col |-> col, key |-> key,
                  db |-> db_opt],
                 self,
                 <<[op |-> "get_document", db |-> db, collection |-> col,
                    key |-> key]>>,
                 get_document(self, db, col, key, outcome))

\* ddb insert --col COL --doc JSON [--db DB]
insert ==
  /\ pc = "start"
  /\ \E col \in Names, doc \in ArgTexts, db_opt \in DbOptions :
       LET db == ResolveDb(db_opt, environ)
           self == get_client(environ)
           av == [command |-> "insert", col |-> col, doc |-> doc,
                  db |-> db_opt]
           document == json_loads(doc)
       IN IF ~document.ok
          THEN InvalidJson(av, self, "document", document)
          ELSE \E outcome \in Outcomes :
                 Render(av, self,
                        <<[op |-> "insert_document", db |-> db,
                           collection |-> col, document |-> document.value]>>,
                        insert_document(self, db, col, document.value,
                                        outcome))

\* ddb update --col COL --key KEY --doc JSON [--db DB]
update ==
  /\ pc = "start"
  /\ \E col \in Names, key \in Keys, doc \in ArgTexts,
        db_opt \in DbOptions :
       LET db == ResolveDb(db_opt, environ)
           self == get_client(environ)
           av == [command |-> "update", col |-> col, key |-> key,
                  doc |-> doc, db |-> db_opt]
           document == json_loads(doc)
       IN IF ~document.ok
          THEN InvalidJson(av, self, "document", document)
          ELSE \E outcome \in Outcomes :
                 Render(av, self,
                        <<[op |-> "update_document", db |-> db,
                           collection |-> col, key |-> key,
                           document |-> document.value]>>,
                        update_document(self, db, col, key, document.value,
                                        outcome))

\* ddb delete --col COL --key KEY [--db DB]
delete ==
  /\ pc = "start"
  /\ \E col \in Names, key \in Keys, db_opt \in DbOptions,
        outcome \in Outcomes :
       LET db == ResolveDb(db_opt, environ)
           self == get_client(environ)
       IN Render([command |-> "delete", col |-> col, key |-> key,
                  db |-> db_opt],
                 self,
                 <<[op |-> "delete_document", db |-> db, collection |-> col,
                    key |-> key]>>,
                 delete_document(self, db, col, key, outcome))

\* The state of a process that main() is about to run app() in.
Fresh(env) ==
  /\ pc = "start"
  /\ environ = env
  /\ argv = [command |-> ""]
  /\ client = None
  /\ client_calls = <<>>
  /\ http = <<>>
  /\ response = None
  /\ result = None
  /\ stdout = <<>>
  /\ exit_code = None
  /\ uncaught = None

Init == \E env \in Environs : Fresh(env)

\* main(): the next invocation is a new process; nothing of the last one
\* is kept.
main ==
  /\ pc = "exited"
  /\ pc' = "start"
  /\ environ' \in Environs
  /\ argv' = [command |-> ""]
  /\ client' = None
  /\ client_calls' = <<>>
  /\ http' = <<>>
  /\ response' = None
  /\ result' = None
  /\ stdout' = <<>>
  /\ exit_code' = None
  /\ uncaught' = None

Next == create \/ query \/ get_doc \/ insert \/ update \/ delete \/ main

Spec == Init /\ [][Next]_vars

\* ------------------------------------------------- one client, many calls
\* A program that makes one DarangoClient and calls its operations on it,
\* one after the other.  client_calls and http hold every call and every
\* request so far; response and result are those of the last call.

ClientBaseUrls == {None, Some(<<"http://h:1", "/", "/">>)}
ClientTimeouts == {DefaultTimeout, 5}
ClientDbs == {"_system", "mydb"}
ClientBindVars ==
  {PyNone, PyDict(<< <<"a", PyInt("1")>> >>)}
ClientDocuments == {PyDict(<< <<"a", PyInt("1")>> >>)}
ClientOutcomes ==
  {[kind |-> "RequestError", detail |-> "timed out"],
   [kind |-> "Response", status_code |-> 200, text |-> BodyResult],
   [kind |-> "Response", status_code |-> 200, text |-> BodyHtml],
   [kind |-> "Response", status_code |-> 404, text |-> BodyErrorMessage]}

\* The state after DarangoClient(base_url, timeout); argv.made keeps what
\* the constructor set.
InitClient ==
  \E env \in {e \in Environs : e.ARANGO_DB = None},
     base_url \in ClientBaseUrls, timeout \in ClientTimeouts :
    /\ pc = "client"
    /\ environ = env
    /\ argv = [command |-> "DarangoClient", base_url |-> base_url,
               timeout |-> timeout,
               made |-> DarangoClient_init(base_url, timeout, env)]
    /\ client = Some(DarangoClient_init(base_url, timeout, env))
    /\ client_calls = <<>>
    /\ http = <<>>
    /\ response = None
    /\ result = None
    /\ stdout = <<>>
    /\ exit_code = None
    /\ uncaught = None

\* One operation called on the client: c the call, r what _request did.
Call(c, r) ==
  /\ client' = Some(r.self)
  /\ client_calls' = Append(client_calls, c)
  /\ http' = http \o r.sent
  /\ response' = Some(r.outcome)
  /\ result' = Some(r.result)
  /\ UNCHANGED <<pc, environ, argv, stdout, exit_code, uncaught>>

CanCall == pc = "client" /\ Len(client_calls) < MaxCalls

call_create_collection ==
  /\ CanCall
  /\ \E db \in ClientDbs, name \in {"users"},
        collection_type \in {"document", "edge"},
        outcome \in ClientOutcomes :
       Call([op |-> "create_collection", db |-> db, name |-> name,
             collection_type |-> collection_type],
            create_collection(client[1], db, name, collection_type, outcome))

call_query ==
  /\ CanCall
  /\ \E db \in ClientDbs, aql \in Queries, bind_vars \in ClientBindVars,
        outcome \in ClientOutcomes :
       Call([op |-> "query", db |-> db, aql |-> aql,
             bind_vars |-> bind_vars],
            client_query(client[1], db, aql, bind_vars, outcome))

call_get_document ==
  /\ CanCall
  /\ \E db \in ClientDbs, collection \in {"users"}, key \in {"k1"},
        outcome \in ClientOutcomes :
       Call([op |-> "get_document", db |-> db, collection |-> collection,
             key |-> key],
            get_document(client[1], db, collection, key, outcome))

call_insert_document ==
  /\ CanCall
  /\ \E db \in ClientDbs, collection \in {"users"},
        document \in ClientDocuments, outcome \in ClientOutcomes :
       Call([op |-> "insert_document", db |-> db,
             collection |-> collection, document |-> document],
            insert_document(client[1], db, collection, document, outcome))

call_update_document ==
  /\ CanCall
  /\ \E db \in ClientDbs, collection \in {"users"}, key \in {"k1"},
        document \in ClientDocuments, outcome \in ClientOutcomes :
       Call([op |-> "update_document", db |-> db,
             collection |-> collection, key |-> key,
             document |-> document],
            update_document(client[1], db, collection, key, document,
                            outcome))

call_delete_document ==
  /\ CanCall
  /\ \E db \in ClientDbs, collection \in {"users"}, key \in {"k1"},
        outcome \in ClientOutcomes :
       Call([op |-> "delete_document", db |-> db, collection |-> collection,
             key |-> key],
            delete_document(client[1], db, collection, key, outcome))

NextClient ==
  \/ call_create_collection
  \/ call_query
  \/ call_get_document
  \/ call_insert_document
  \/ call_update_document
  \/ call_delete_document

SpecClient == InitClient /\ [][NextClient]_vars

\* ------------------------------------------------------------- properties

Exited == pc = "exited"

\* The JSON-bearing argument of the command that ran, as an Optional text.
JsonArg ==
  CASE argv.command = "query" -> argv.bind
    [] argv.command \in {"insert", "update"} -> Some(argv.doc)
    [] OTHER -> None

\* What the invalid-input error of the command that ran is about.
JsonArgName ==
  IF argv.command = "query" THEN "bind variables" ELSE "document"

Raised(type) ==
  /\ result # None
  /\ result[1].kind = "raise"
  /\ result[1].exc.type = type

\* C1: a query --bind, insert --doc or update --doc argument that is not
\* valid JSON (the empty string included) makes the command print an
\* invalid-input error and exit 1 without calling a client operation or
\* sending an HTTP request.
C1_InvalidJsonRejected ==
  (Exited /\ JsonArg # None /\ ~json_loads(JsonArg[1]).ok) =>
    /\ stdout = <<[kind |-> "error",
                   text |-> "Error: Invalid JSON for " \o JsonArgName \o ": "
                            \o JSONDecodeErrorStr(json_loads(JsonArg[1]))]>>
    /\ exit_code = Some(1)
    /\ client_calls = <<>>
    /\ http = <<>>

\* The message the priority rule of C2 picks for an error response.
PriorityMessage(status_code, text, url) ==
  LET body == json_loads(text)
      fields == IF body.ok /\ body.value.t = "dict"
                THEN {body.value.kv[i][1] : i \in 1..Len(body.value.kv)}
                ELSE {}
  IN CASE "errorMessage" \in fields -> GetItem(body.value, "errorMessage")
       [] "errorMessage" \notin fields /\ "error" \in fields ->
            GetItem(body.value, "error")
       [] OTHER -> PyStr(HTTPStatusErrorStr(status_code, url))

ErrorResponse ==
  /\ Exited
  /\ response # None
  /\ response[1].kind = "Response"
  /\ response[1].status_code >= 400
  /\ response[1].status_code <= 599

\* C2: on a 4xx/5xx response the executor raises a DarangoError whose status
\* code is the response's and whose message is the body's errorMessage
\* field, else its error field, else the text of the HTTP status failure.
C2_ErrorMessagePriority ==
  ErrorResponse =>
    /\ Raised("DarangoError")
    /\ result[1].exc.status_code = Some(response[1].status_code)
    /\ result[1].exc.message =
         PriorityMessage(response[1].status_code, response[1].text,
                         http[1].url)

\* A 404 whose body holds both fields was answered with errorMessage.
C2_Witness ==
  /\ ErrorResponse
  /\ response[1].status_code = 404
  /\ response[1].text = BodyBoth
  /\ result[1].exc.message = PyStr("m")
  /\ result[1].exc.status_code = Some(404)

\* C3: a value returned by the client operation is printed as JSON with exit
\* status 0; a DarangoError has its message printed after "Error:" with
\* exit status 1 and no result printed.
C3_TwoOutcomes ==
  (Exited /\ result # None) =>
    /\ result[1].kind = "return" =>
         /\ stdout = <<[kind |-> "json",
                        text |-> json_dumps(result[1].value)]>>
         /\ exit_code = Some(0)
    /\ Raised("DarangoError") =>
         /\ stdout = <<[kind |-> "error",
                        text |-> "Error: "
                                 \o py_str(result[1].exc.message)]>>
         /\ exit_code = Some(1)

\* A get that the server answered 404 {"errorMessage": "m"}.
C3_Witness ==
  /\ Exited
  /\ argv.command = "get"
  /\ Raised("DarangoError")
  /\ result[1].exc.status_code = Some(404)
  /\ stdout = <<[kind |-> "error", text |-> "Error: m"]>>
  /\ exit_code = Some(1)

\* C4: whatever the HTTP call does, the executor returns a JSON value or
\* raises DarangoError, and the invocation ends as success (exit 0, the
\* result printed) or failure (exit 1, one error message printed); no other
\* exception leaves the command.
C4_OnlyClassifiedErrors ==
  Exited =>
    /\ uncaught = None
    /\ result # None =>
         \/ result[1].kind = "return"
         \/ Raised("DarangoError")
    /\ \/ exit_code = Some(0) /\ Len(stdout) = 1 /\ stdout[1].kind = "json"
       \/ exit_code = Some(1) /\ Len(stdout) = 1 /\ stdout[1].kind = "error"

Path(segments) == "/_db/" \o segments[1] \o "/_api/" \o segments[2]

\* C5: each endpoint operation sends the method, path and body of the
\* table, and its result is the executor's.
C5_EndpointTable ==
  (Exited /\ client_calls # <<>>) =>
    LET c == client_calls[1]
        r == http[1]
    IN /\ Len(client_calls) = 1
       /\ Len(http) = 1
       /\ r.url = client[1].base_url \o r.path
       /\ result = Some(Classify(response[1], r.url))
       /\ CASE c.op = "create_collection" ->
                 /\ r.method = "POST"
                 /\ r.path = Path(<<c.db, "collection">>)
                 /\ \E code \in {"2", "3"} :
                      r.json = PyDict(<< <<"name", PyStr(c.name)>>,
                                         <<"type", PyInt(code)>> >>)
            [] c.op = "query" ->
                 /\ r.method = "POST"
                 /\ r.path = Path(<<c.db, "cursor">>)
                 /\ GetItem(r.json, "query") = PyStr(c.aql)
            [] c.op = "get_document" ->
                 /\ r.method = "GET"
                 /\ r.path = Path(<<c.db, "document/" \o c.collection
                                                       \o "/" \o c.key>>)
                 /\ r.json = PyNone
            [] c.op = "insert_document" ->
                 /\ r.method = "POST"
                 /\ r.path = Path(<<c.db, "document/" \o c.collection>>)
                 /\ r.json = c.document
            [] c.op = "update_document" ->
                 /\ r.method = "PATCH"
                 /\ r.path = Path(<<c.db, "document/" \o c.collection
                                                       \o "/" \o c.key>>)
                 /\ r.json = c.document
            [] c.op = "delete_document" ->
                 /\ r.method = "DELETE"
                 /\ r.path = Path(<<c.db, "document/" \o c.collection
                                                       \o "/" \o c.key>>)
                 /\ r.json = PyNone

\* An update of knows/k2 in mydb went out as a PATCH of the parsed document.
C5_Witness ==
  /\ Exited
  /\ argv.command = "update"
  /\ http # <<>>
  /\ http[1].method = "PATCH"
  /\ http[1].path = "/_db/mydb/_api/document/knows/k2"
  /\ http[1].json = PyDict(<< <<"a", PyInt("1")>> >>)

\* C6: an invocation sends at most one HTTP request; on well-formed input it
\* calls exactly one endpoint operation; a transport failure or an error
\* response is not retried and ends the invocation as a failure.
C6_AtMostOneRequest ==
  /\ Len(http) <= 1
  /\ Len(client_calls) <= 1
  /\ (Exited /\ JsonArg # None /\ json_loads(JsonArg[1]).ok) =>
       Len(client_calls) = 1
  /\ (Exited /\ JsonArg = None) => Len(client_calls) = 1
  /\ (Exited /\ response # None) =>
       /\ Len(http) = 1
       /\ (\/ response[1].kind = "RequestError"
           \/ response[1].status_code >= 400) =>
            /\ Raised("DarangoError")
            /\ exit_code = Some(1)

\* A request that failed in transport was the only one sent.
C6_Witness ==
  /\ Exited
  /\ response # None
  /\ response[1].kind = "RequestError"
  /\ Len(http) = 1
  /\ exit_code = Some(1)

\* C7: the database passed to the client operation is the --db value
\* whenever --db is given, else ARANGO_DB when set, else "_system".
C7_DbResolution ==
  (Exited /\ client_calls # <<>>) =>
    client_calls[1].db =
      IF argv.db # None THEN argv.db[1]
      ELSE IF environ.ARANGO_DB # None THEN environ.ARANGO_DB[1]
      ELSE "_system"

\* C8: a query without --bind passes None as bind_vars, and the body sent
\* holds the query field alone.
C8_NoBindNoField ==
  (Exited /\ argv.command = "query" /\ argv.bind = None) =>
    /\ Len(client_calls) = 1
    /\ client_calls[1].op = "query"
    /\ client_calls[1].bind_vars = PyNone
    /\ Len(http) = 1
    /\ http[1].json = PyDict(<< <<"query", PyStr(argv.aql)>> >>)

C8_Witness ==
  /\ Exited
  /\ argv.command = "query"
  /\ argv.bind = None
  /\ http # <<>>
  /\ ~HasKey(http[1].json, "bindVars")
  /\ exit_code = Some(0)

\* C9: whenever a bind-variable mapping is supplied, the empty mapping
\* included, the body sent has a bindVars field equal to it.
C9_MappingAlwaysSent ==
  (/\ Exited
   /\ argv.command = "query"
   /\ client_calls # <<>>
   /\ client_calls[1].bind_vars.t = "dict") =>
    /\ HasKey(http[1].json, "bindVars")
    /\ GetItem(http[1].json, "bindVars") = client_calls[1].bind_vars

\* C10: create forwards --type (default "document") unchanged, and the type
\* code sent is 3 exactly when that type is "edge", 2 otherwise.
C10_TypeCode ==
  (Exited /\ argv.command = "create") =>
    /\ Len(client_calls) = 1
    /\ client_calls[1].collection_type =
         (IF argv.type = None THEN "document" ELSE argv.type[1])
    /\ Len(http) = 1
    /\ GetItem(http[1].json, "type") =
         (IF client_calls[1].collection_type = "edge"
          THEN PyInt("3") ELSE PyInt("2"))

\* An edge collection was created with type code 3.
C10_Witness ==
  /\ Exited
  /\ argv.command = "create"
  /\ argv.type = Some("edge")
  /\ http # <<>>
  /\ http[1].json = PyDict(<< <<"name", PyStr("knows")>>,
                              <<"type", PyInt("3")>> >>)

\* C11: after any sequence of operations, failed or not, the client's base
\* URL and timeout are those set at construction, and the request of an
\* operation depends on its arguments and those two values alone: it has
\* that timeout and that base URL, and equal calls send equal requests
\* wherever they stand in the sequence.
C11_Stateless ==
  pc = "client" =>
    /\ client = Some(argv.made)
    /\ Len(http) = Len(client_calls)
    /\ \A i \in 1..Len(http) :
         /\ http[i].timeout = argv.made.timeout
         /\ http[i].url = argv.made.base_url \o http[i].path
    /\ \A i, j \in 1..Len(http) :
         client_calls[i] = client_calls[j] => http[i] = http[j]

\* The same get was called twice on a client made with timeout 5 and a base
\* URL with trailing slashes; the second call failed with a 404.
C11_Witness ==
  /\ pc = "client"
  /\ argv.timeout = 5
  /\ argv.base_url = Some(<<"http://h:1", "/", "/">>)
  /\ Len(client_calls) = 2
  /\ client_calls[1] = client_calls[2]
  /\ client_calls[1].op = "get_document"
  /\ result[1].kind = "raise"
  /\ client = Some([base_url |-> "http://h:1", timeout |-> 5])
  /\ http[2].url = "http://h:1/_db/mydb/_api/document/users/k1"

====
